---- MODULE Spec2Model ----
(***************************************************************************)
(* zlog: a caddy HTTP middleware that wraps the response writer and the    *)
(* request body of one exchange in a proxyWriter, mirrors the bytes that   *)
(* pass through into capture buffers and, when the downstream handler has  *)
(* returned, renders one log line and writes it to the sinks.              *)
(*                                                                         *)
(* The repository holds three revisions of the handler, each with its own *)
(* specification over the same variables:                                  *)
(*   Spec        src/unnamed/part_000  (configurable truncate limit)       *)
(*   SpecFixed   src/main.go:1-266     (fixed MaxBufferSize threshold)     *)
(*   SpecAscii   src/main.go:268-341   (response bytes copied to stdout)   *)
(* SpecRender applies the tryToJson of the first two to single payloads    *)
(* and SpecConc runs several exchanges of the first at once.               *)
(*                                                                         *)
(* Bytes are integers 0..255 and byte strings are sequences of them.       *)
(***************************************************************************)
EXTENDS Integers, Sequences, FiniteSets, TLC

(***************************************************************************)
(* Bounds of the model.                                                    *)
(***************************************************************************)
\* Go's int and uint64 are 64 bits wide; the model keeps the conversion
\* int(uint64) with a narrower two's-complement word of IntBits bits.
IntBits == 12
\* longest slice a single Read or Write call carries
MaxChunk == 2
\* number of proxyWriter calls the downstream handler makes in one exchange
MaxCalls == 2
\* longest payload handed to tryToJson by the rendering specification
MaxPayload == 4

(***************************************************************************)
(* Program constants.  MaxBufferSize (512*1024 in the source) and          *)
(* MaxTextSize (512 in the source) are scaled down so that bodies above    *)
(* the threshold fit in the bounds; their order MaxTextSize <              *)
(* MaxBufferSize is the source's.                                          *)
(***************************************************************************)
DefaultTruncate == 1024
MaxBufferSize == 3
MaxTextSize == 2
\* MaxBufferSize of the third revision (1024 * 1024), scaled likewise
MaxBufferSizeAscii == 3

(***************************************************************************)
(* Bytes, by name.  Ch.HIGH is a byte above 127: 0xC8 is a UTF-8 lead byte *)
(* that no byte used in the model continues, so wherever it stands it is   *)
(* an invalid UTF-8 sequence of length one.                                *)
(***************************************************************************)
Ch == [TAB |-> 9, LF |-> 10, CR |-> 13, SP |-> 32, QUOTE |-> 34, AMP |-> 38,
       COMMA |-> 44, ZERO |-> 48, ONE |-> 49, NINE |-> 57, COLON |-> 58,
       LT |-> 60, GT |-> 62, LBRACKET |-> 91, BACKSLASH |-> 92,
       RBRACKET |-> 93, LOWERA |-> 97, LOWERB |-> 98, LOWERN |-> 110,
       LBRACE |-> 123, RBRACE |-> 125, HIGH |-> 200]

\* all sequences over S of length 0..n
SeqsUpTo(S, n) == UNION {[1..k -> S] : k \in 0..n}

Min(x, y) == IF x < y THEN x ELSE y

\* Go's s[:n] for 0 <= n <= len(s)
Prefix(s, n) == SubSeq(s, 1, n)

RECURSIVE Concat(_)
Concat(ss) == IF ss = <<>> THEN <<>> ELSE Head(ss) \o Concat(Tail(ss))


(***************************************************************************)
(* encoding/json, as far as tryToJson uses it: json.Unmarshal into an      *)
(* interface{} followed by json.Marshal of the decoded value.  The scanner *)
(* below covers the documents that can be spelled with the bytes of the    *)
(* model: whitespace, strings without escapes, unsigned integers, arrays   *)
(* and objects.  A byte outside that grammar (a backslash, a sign, a       *)
(* letter outside a string) makes the document invalid, as it does in Go   *)
(* for every byte the model draws.                                         *)
(* Each Parse operator returns [ok, pos, out]: whether a value was read at *)
(* position i, the position after it, and the bytes json.Marshal writes    *)
(* for the decoded value.                                                  *)
(***************************************************************************)
IsWs(c) == c \in {Ch.SP, Ch.LF, Ch.TAB, Ch.CR}

IsDigit(c) == c \in Ch.ZERO..Ch.NINE

\* the byte at position i, -1 past the end
At(s, i) == IF i \in 1..Len(s) THEN s[i] ELSE -1

\* first position at or after i that holds no whitespace
SkipWs(s, i) ==
    CHOOSE j \in i..(Len(s) + 1) :
        /\ \A k \in i..(j - 1) : IsWs(s[k])
        /\ ~IsWs(At(s, j))

Fail == [ok |-> FALSE, pos |-> 0, out |-> <<>>]

\* bytewise order of Go strings
Less(a, b) ==
    \E i \in 1..(Min(Len(a), Len(b)) + 1) :
        /\ \A j \in 1..(i - 1) : a[j] = b[j]
        /\ \/ i > Len(a) /\ i <= Len(b)
           \/ i <= Len(a) /\ i <= Len(b) /\ a[i] < b[i]

RECURSIVE SortKeys(_)
SortKeys(K) ==
    IF K = {} THEN <<>>
    ELSE LET m == CHOOSE k \in K : \A o \in K \ {k} : Less(k, o)
         IN  <<m>> \o SortKeys(K \ {m})

\* a string literal starting at the quote s[i]; str is the decoded string:
\* Go replaces every invalid UTF-8 byte by U+FFFD (EF BF BD)
ScanString(s, i) ==
    LET closers == {j \in (i + 1)..Len(s) : s[j] = Ch.QUOTE}
    IN  IF closers = {} THEN [ok |-> FALSE, pos |-> 0, str |-> <<>>]
        ELSE LET j == CHOOSE x \in closers : \A y \in closers : x <= y
                 body == SubSeq(s, i + 1, j - 1)
             IN  IF \E k \in 1..Len(body) :
                        body[k] < Ch.SP \/ body[k] = Ch.BACKSLASH
                 THEN [ok |-> FALSE, pos |-> 0, str |-> <<>>]
                 ELSE [ok |-> TRUE, pos |-> j + 1,
                       str |-> Concat([k \in 1..Len(body) |->
                                  IF body[k] > 127 THEN <<239, 191, 189>>
                                  ELSE <<body[k]>>])]

\* json.Marshal of a string: quoted, with <, > and & written as \u00XX
EncodeString(str) ==
    <<Ch.QUOTE>> \o
    Concat([k \in 1..Len(str) |->
        CASE str[k] = Ch.LT  -> <<92, 117, 48, 48, 51, 99>>
          [] str[k] = Ch.GT  -> <<92, 117, 48, 48, 51, 101>>
          [] str[k] = Ch.AMP -> <<92, 117, 48, 48, 50, 54>>
          [] OTHER -> <<str[k]>>]) \o
    <<Ch.QUOTE>>

\* an unsigned integer starting at the digit s[i]; a float64 of at most 15
\* digits is written back by json.Marshal with the same digits
ScanNumber(s, i) ==
    LET j == CHOOSE x \in (i + 1)..(Len(s) + 1) :
                 /\ \A k \in i..(x - 1) : IsDigit(s[k])
                 /\ ~IsDigit(At(s, x))
    IN  IF s[i] = Ch.ZERO /\ j > i + 1 THEN [ok |-> TRUE, pos |-> i + 1, out |-> <<Ch.ZERO>>]
        ELSE [ok |-> TRUE, pos |-> j, out |-> SubSeq(s, i, j - 1)]

\* EncodeObject as it would be for a decoder that kept the members in the
\* order of the document
EncodeObjectInOrder(members) ==
    <<Ch.LBRACE>> \o
    Concat([n \in 1..Len(members) |->
        (IF n > 1 THEN <<Ch.COMMA>> ELSE <<>>)
          \o <<Ch.QUOTE>> \o members[n].k \o <<Ch.QUOTE, Ch.COLON>>
          \o members[n].v]) \o
    <<Ch.RBRACE>>

\* json.Marshal of a map[string]interface{}: a repeated key keeps its last
\* value, and the keys are written in sorted order
EncodeObject(members) ==
    LET keys == {members[i].k : i \in 1..Len(members)}
        last(k) == CHOOSE i \in 1..Len(members) :
                      /\ members[i].k = k
                      /\ \A j \in (i + 1)..Len(members) : members[j].k # k
        order == SortKeys(keys)
    IN  <<Ch.LBRACE>> \o
        Concat([n \in 1..Len(order) |->
            (IF n > 1 THEN <<Ch.COMMA>> ELSE <<>>) \o EncodeString(order[n])
              \o <<Ch.COLON>> \o members[last(order[n])].v]) \o
        <<Ch.RBRACE>>

EncodeArray(elems) ==
    <<Ch.LBRACKET>> \o
    Concat([n \in 1..Len(elems) |->
        (IF n > 1 THEN <<Ch.COMMA>> ELSE <<>>) \o elems[n]]) \o
    <<Ch.RBRACKET>>

RECURSIVE ParseValue(_, _), ParseElems(_, _, _), ParseMembers(_, _, _)

ParseValue(s, i) ==
    LET c == At(s, i)
    IN  CASE c = Ch.QUOTE ->
               LET r == ScanString(s, i)
               IN  IF r.ok THEN [ok |-> TRUE, pos |-> r.pos, out |-> EncodeString(r.str)]
                   ELSE Fail
          [] IsDigit(c) -> ScanNumber(s, i)
          [] c = Ch.LBRACE ->
               LET j == SkipWs(s, i + 1)
               IN  IF At(s, j) = Ch.RBRACE
                   THEN [ok |-> TRUE, pos |-> j + 1, out |-> <<Ch.LBRACE, Ch.RBRACE>>]
                   ELSE ParseMembers(s, j, <<>>)
          [] c = Ch.LBRACKET ->
               LET j == SkipWs(s, i + 1)
               IN  IF At(s, j) = Ch.RBRACKET
                   THEN [ok |-> TRUE, pos |-> j + 1, out |-> <<Ch.LBRACKET, Ch.RBRACKET>>]
                   ELSE ParseElems(s, j, <<>>)
          [] OTHER -> Fail

ParseElems(s, i, acc) ==
    LET r == ParseValue(s, i)
    IN  IF ~r.ok THEN Fail
        ELSE LET j == SkipWs(s, r.pos)
                 elems == Append(acc, r.out)
             IN  CASE At(s, j) = Ch.COMMA -> ParseElems(s, SkipWs(s, j + 1), elems)
                   [] At(s, j) = Ch.RBRACKET ->
                        [ok |-> TRUE, pos |-> j + 1, out |-> EncodeArray(elems)]
                   [] OTHER -> Fail

ParseMembers(s, i, acc) ==
    IF At(s, i) # Ch.QUOTE THEN Fail
    ELSE LET key == ScanString(s, i)
         IN  IF ~key.ok THEN Fail
             ELSE LET j == SkipWs(s, key.pos)
                  IN  IF At(s, j) # Ch.COLON THEN Fail
                      ELSE LET v == ParseValue(s, SkipWs(s, j + 1))
                           IN  IF ~v.ok THEN Fail
                               ELSE LET e == SkipWs(s, v.pos)
                                        members == Append(acc, [k |-> key.str, v |-> v.out])
                                    IN  CASE At(s, e) = Ch.COMMA ->
                                               ParseMembers(s, SkipWs(s, e + 1), members)
                                          [] At(s, e) = Ch.RBRACE ->
                                               [ok |-> TRUE, pos |-> e + 1,
                                                out |-> EncodeObject(members)]
                                          [] OTHER -> Fail

\* json.Unmarshal(data, &jsonObj) then json.Marshal(jsonObj): ok is err == nil,
\* out the marshalled bytes
Unmarshal(s) ==
    LET r == ParseValue(s, SkipWs(s, 1))
    IN  IF r.ok /\ SkipWs(s, r.pos) = Len(s) + 1
        THEN [ok |-> TRUE, out |-> r.out]
        ELSE [ok |-> FALSE, out |-> <<>>]

\* strings.ReplaceAll(out, "\n", "\\n")
ReplaceAll(out) ==
    Concat([k \in 1..Len(out) |->
        IF out[k] = Ch.LF THEN <<Ch.BACKSLASH, Ch.LOWERN>> ELSE <<out[k]>>])

\* proxyWriter.tryToJson of the configurable-truncate variant
tryToJson(buf) ==
    IF \E i \in 1..Len(buf) : buf[i] > 127 THEN <<>>
    ELSE LET r == Unmarshal(buf)
         IN  IF ~r.ok THEN ReplaceAll(buf) ELSE r.out

\* proxyWriter.tryToJson of the fixed-threshold variant; the deferred
\* function cuts whatever is returned to MaxTextSize bytes
tryToJsonFixed(buf) ==
    LET r == Unmarshal(buf)
        out == IF ~r.ok THEN ReplaceAll(buf) ELSE r.out
    IN  IF Len(out) > MaxTextSize THEN Prefix(out, MaxTextSize) ELSE out


(***************************************************************************)
(* The state of one ZLog module and of the exchange it serves.             *)
(***************************************************************************)
VARIABLES
    Truncate,       \* z.Truncate, a uint64
    LogFile,        \* z.LogFile: "nil" or "open"
    pc,             \* where the module is: "config", "rejected" (the
                    \* Caddyfile was refused), "configured", "ready",
                    \* "handler" (inside next.ServeHTTP), "returned"
                    \* (next.ServeHTTP has returned), "filed" (the line is
                    \* in the file, not yet on stdout), "done", "panicked"
    pw,             \* the proxyWriter of the exchange
    ContentLength,  \* r.ContentLength of the request, -1 when unknown
    rw,             \* the real http.ResponseWriter: how many bytes it accepted,
                    \* the status it committed (0: none yet) and how many
                    \* WriteHeader calls it received
    body,           \* the real request body: bytes it delivered, closed or not
    passed,         \* every byte the handler passed to proxyWriter.Write
    call,           \* the last proxyWriter call of the handler
    calls,          \* how many calls the handler has made
    LogFileOut,     \* the write calls z.LogFile received, one entry per call
    Stdout,         \* the write calls os.Stdout received, one entry per call
    ret             \* err, the named result of ServeHTTP ("none": not yet
                    \* assigned); the host receives it when pc = "done"

vars == <<Truncate, LogFile, pc, pw, ContentLength, rw, body, passed, call,
          calls, LogFileOut, Stdout, ret>>

\* the bytes bodies are made of: a JSON digit and a byte above 127
Bytes == {Ch.ONE, Ch.HIGH}

Chunks == SeqsUpTo(Bytes, MaxChunk)

\* status codes a handler sets
StatusCodes == {200, 404}

\* what humanize.ParseBytes yields for the truncate directive: 0 when the
\* directive is absent or does not parse (the error is dropped), a small
\* limit, and a size of 2^(IntBits-1) bytes or more
ParsedTruncate == {0, 2, 2 ^ (IntBits - 1)}

\* int(z.Truncate): Go's conversion of an unsigned word to the signed word of
\* the same width keeps the bits
ToInt(u) == IF u >= 2 ^ (IntBits - 1) THEN u - 2 ^ IntBits ELSE u

\* the proxyWriter literal of ServeHTTP: every field not named is zero
proxyWriter(truncate) ==
    [respBuf |-> <<>>, respSize |-> 0, code |-> 0,
     reqBuf |-> <<>>, reqSize |-> 0, truncate |-> truncate]

NoCall == [op |-> "none", arg |-> <<>>, under |-> <<>>, ret |-> <<>>]

\* a module fresh from CaddyModule's New, no exchange yet
Fresh ==
    /\ Truncate = 0
    /\ LogFile = "nil"
    /\ pc = "config"
    /\ ContentLength = -1
    /\ rw = [written |-> 0, status |-> 0, headers |-> 0]
    /\ body = [read |-> <<>>, closed |-> FALSE]
    /\ passed = <<>>
    /\ calls = 0
    /\ LogFileOut = <<>>
    /\ Stdout = <<>>
    /\ ret = "none"

Init ==
    /\ Fresh
    /\ pw = proxyWriter(0)
    /\ call = NoCall

\* printCfg: the one write fmt.Printf("zlog cfg = %s\n", data) makes on
\* os.Stdout
printCfg == [ex |-> 0, part |-> "zlog cfg"]

\* UnmarshalCaddyfile of a block whose truncate directive parsed to t.  With
\* ok the block is well formed: the default is applied, printCfg writes its
\* line and nil is returned.  Without ok a directive after the truncate line
\* is malformed: d.ArgErr() or d.Errf() is returned at once, before the
\* default and before printCfg, and the host refuses the configuration.
UnmarshalCaddyfile(t, ok) ==
    /\ pc = "config"
    /\ IF ok
       THEN /\ Truncate' = IF t = 0 THEN DefaultTruncate ELSE t
            /\ Stdout' = Append(Stdout, printCfg)
            /\ pc' = "configured"
       ELSE /\ Truncate' = t
            /\ Stdout' = Stdout
            /\ pc' = "rejected"
    /\ UNCHANGED <<LogFile, pw, ContentLength, rw, body, passed, call, calls,
                   LogFileOut, ret>>

\* Provision: z.LogFile, _ = z.FileWriter.OpenWriter(); a module configured
\* through JSON is provisioned without UnmarshalCaddyfile
Provision(opened) ==
    /\ pc \in {"config", "configured"}
    /\ LogFile' = IF opened THEN "open" ELSE "nil"
    /\ pc' = "ready"
    /\ UNCHANGED <<Truncate, pw, ContentLength, rw, body, passed, call, calls,
                   LogFileOut, Stdout, ret>>

\* ServeHTTP up to the call of next.ServeHTTP
ServeHTTPBegin ==
    /\ pc = "ready"
    /\ pw' = proxyWriter(ToInt(Truncate))
    /\ pc' = "handler"
    /\ UNCHANGED <<Truncate, LogFile, ContentLength, rw, body, passed, call,
                   calls, LogFileOut, Stdout, ret>>

\* proxyWriter.min
min(x, y) == IF x < y THEN x ELSE y

\* Read as it would be if both directions shared one capture buffer
ReadSharedBuf(chunk, err) ==
    /\ pc = "handler"
    /\ calls < MaxCalls
    /\ LET n == Len(chunk)
           k == min(pw.truncate - Len(pw.respBuf), n)
       IN  /\ body' = [body EXCEPT !.read = @ \o chunk]
           /\ IF k < 0
              THEN /\ pw' = [pw EXCEPT !.reqSize = @ + n]
                   /\ call' = [op |-> "Read", arg |-> chunk,
                               under |-> <<n, err>>, ret |-> <<"panic">>]
                   /\ pc' = "panicked"
              ELSE /\ pw' = [pw EXCEPT !.reqSize = @ + n,
                                       !.respBuf = @ \o Prefix(chunk, k)]
                   /\ call' = [op |-> "Read", arg |-> chunk,
                               under |-> <<n, err>>, ret |-> <<n, err>>]
                   /\ pc' = pc
    /\ calls' = calls + 1
    /\ UNCHANGED <<Truncate, LogFile, ContentLength, rw, passed, LogFileOut,
                   Stdout, ret>>

\* Read as it would be if it retained the last k bytes of the chunk
\* (p[n-k:n]) instead of the first k
ReadKeepsTail(chunk, err) ==
    /\ pc = "handler"
    /\ calls < MaxCalls
    /\ LET n == Len(chunk)
           k == min(pw.truncate - Len(pw.reqBuf), n)
       IN  /\ body' = [body EXCEPT !.read = @ \o chunk]
           /\ IF k < 0
              THEN /\ pw' = [pw EXCEPT !.reqSize = @ + n]
                   /\ call' = [op |-> "Read", arg |-> chunk,
                               under |-> <<n, err>>, ret |-> <<"panic">>]
                   /\ pc' = "panicked"
              ELSE /\ pw' = [pw EXCEPT !.reqSize = @ + n,
                                       !.reqBuf = @ \o SubSeq(chunk, n - k + 1, n)]
                   /\ call' = [op |-> "Read", arg |-> chunk,
                               under |-> <<n, err>>, ret |-> <<n, err>>]
                   /\ pc' = pc
    /\ calls' = calls + 1
    /\ UNCHANGED <<Truncate, LogFile, ContentLength, rw, passed, LogFileOut,
                   Stdout, ret>>

\* proxyWriter.Read(p): the real body delivers chunk and err into p; the
\* slice expression p[:k] panics when k is negative
Read(chunk, err) ==
    /\ pc = "handler"
    /\ calls < MaxCalls
    /\ LET n == Len(chunk)
           k == min(pw.truncate - Len(pw.reqBuf), n)
       IN  /\ body' = [body EXCEPT !.read = @ \o chunk]
           /\ IF k < 0
              THEN /\ pw' = [pw EXCEPT !.reqSize = @ + n]
                   /\ call' = [op |-> "Read", arg |-> chunk,
                               under |-> <<n, err>>, ret |-> <<"panic">>]
                   /\ pc' = "panicked"
              ELSE /\ pw' = [pw EXCEPT !.reqSize = @ + n,
                                       !.reqBuf = @ \o Prefix(chunk, k)]
                   /\ call' = [op |-> "Read", arg |-> chunk,
                               under |-> <<n, err>>, ret |-> <<n, err>>]
                   /\ pc' = pc
    /\ calls' = calls + 1
    /\ UNCHANGED <<Truncate, LogFile, ContentLength, rw, passed, LogFileOut,
                   Stdout, ret>>

\* proxyWriter.Close
Close ==
    /\ pc = "handler"
    /\ calls < MaxCalls
    /\ body' = [body EXCEPT !.closed = TRUE]
    /\ call' = [op |-> "Close", arg |-> <<>>, under |-> <<>>, ret |-> <<>>]
    /\ calls' = calls + 1
    /\ UNCHANGED <<Truncate, LogFile, pc, pw, ContentLength, rw, passed,
                   LogFileOut, Stdout, ret>>

\* the real ResponseWriter.WriteHeader: the first status is committed, a
\* later call is superfluous
Commit(status) == IF rw.status = 0 THEN status ELSE rw.status

\* proxyWriter.WriteHeader
WriteHeader(statusCode) ==
    /\ pc = "handler"
    /\ calls < MaxCalls
    /\ rw' = [rw EXCEPT !.status = Commit(statusCode), !.headers = @ + 1]
    /\ pw' = [pw EXCEPT !.code = statusCode]
    /\ call' = [op |-> "WriteHeader", arg |-> <<statusCode>>, under |-> <<>>,
                ret |-> <<>>]
    /\ calls' = calls + 1
    /\ UNCHANGED <<Truncate, LogFile, pc, ContentLength, body, passed,
                   LogFileOut, Stdout, ret>>

\* Write as it would be with the capture step retaining all of data
WriteUnbounded(data, n, err) ==
    /\ pc = "handler"
    /\ calls < MaxCalls
    /\ rw' = [rw EXCEPT !.written = @ + n, !.status = Commit(200)]
    /\ passed' = passed \o data
    /\ pw' = [pw EXCEPT !.respSize = @ + n, !.respBuf = @ \o data]
    /\ call' = [op |-> "Write", arg |-> data, under |-> <<n, err>>,
                ret |-> <<n, err>>]
    /\ pc' = pc
    /\ calls' = calls + 1
    /\ UNCHANGED <<Truncate, LogFile, ContentLength, body, LogFileOut, Stdout,
                   ret>>

\* Write as it would be with the counter advanced by len(data) instead of n
WriteCountsData(data, n, err) ==
    /\ pc = "handler"
    /\ calls < MaxCalls
    /\ rw' = [rw EXCEPT !.written = @ + n, !.status = Commit(200)]
    /\ passed' = passed \o data
    /\ LET k == IF Len(data) < pw.truncate - Len(pw.respBuf) THEN Len(data)
                ELSE pw.truncate - Len(pw.respBuf)
       IN  IF k < 0
           THEN /\ pw' = [pw EXCEPT !.respSize = @ + Len(data)]
                /\ call' = [op |-> "Write", arg |-> data,
                            under |-> <<n, err>>, ret |-> <<"panic">>]
                /\ pc' = "panicked"
           ELSE /\ pw' = [pw EXCEPT !.respSize = @ + Len(data),
                                    !.respBuf = @ \o Prefix(data, k)]
                /\ call' = [op |-> "Write", arg |-> data,
                            under |-> <<n, err>>, ret |-> <<n, err>>]
                /\ pc' = pc
    /\ calls' = calls + 1
    /\ UNCHANGED <<Truncate, LogFile, ContentLength, body, LogFileOut, Stdout,
                   ret>>

\* proxyWriter.Write(data): the real writer accepts n bytes and answers
\* (n, err); data[:k] panics when k is negative
Write(data, n, err) ==
    /\ pc = "handler"
    /\ calls < MaxCalls
    /\ rw' = [rw EXCEPT !.written = @ + n, !.status = Commit(200)]
    /\ passed' = passed \o data
    /\ LET k == min(Len(data), pw.truncate - Len(pw.respBuf))
       IN  IF k < 0
           THEN /\ pw' = [pw EXCEPT !.respSize = @ + n]
                /\ call' = [op |-> "Write", arg |-> data,
                            under |-> <<n, err>>, ret |-> <<"panic">>]
                /\ pc' = "panicked"
           ELSE /\ pw' = [pw EXCEPT !.respSize = @ + n,
                                    !.respBuf = @ \o Prefix(data, k)]
                /\ call' = [op |-> "Write", arg |-> data,
                            under |-> <<n, err>>, ret |-> <<n, err>>]
                /\ pc' = pc
    /\ calls' = calls + 1
    /\ UNCHANGED <<Truncate, LogFile, ContentLength, body, LogFileOut, Stdout,
                   ret>>

\* proxyWriter.writeLog: the fields of the line that depend on the exchange
\* (the clock, the duration and the request's method, path and content types
\* are the same for every run of the model); the sizes are the numbers
\* handed to humanize.Bytes
writeLog ==
    [code |-> pw.code,
     reqSize |-> pw.reqSize, reqBody |-> tryToJson(pw.reqBuf),
     respSize |-> pw.respSize, respBody |-> tryToJson(pw.respBuf)]

\* next.ServeHTTP returns err, which ServeHTTP keeps in its named result
ServeHTTPNextReturns(err) ==
    /\ pc = "handler"
    /\ ret' = err
    /\ pc' = "returned"
    /\ UNCHANGED <<Truncate, LogFile, pw, ContentLength, rw, body, passed,
                   call, calls, LogFileOut, Stdout>>

\* ServeHTTPLogFile as it would be if formatting consumed the capture
\* buffers (reading them out, as io.Copy does, instead of looking at
\* Bytes())
ServeHTTPLogFileDraining ==
    /\ pc = "returned"
    /\ IF LogFile # "nil"
       THEN /\ LogFileOut' = Append(LogFileOut, writeLog)
            /\ pw' = [pw EXCEPT !.reqBuf = <<>>, !.respBuf = <<>>]
            /\ pc' = "filed"
       ELSE /\ UNCHANGED <<LogFileOut, pw>>
            /\ pc' = "done"
    /\ UNCHANGED <<Truncate, LogFile, ContentLength, rw, body, passed,
                   call, calls, Stdout, ret>>

\* ServeHTTP after next.ServeHTTP: with z.LogFile nil it returns at once;
\* otherwise writeLog formats the line into the local buffer and
\* z.LogFile.Write receives it in one call, whose result is dropped
ServeHTTPLogFile ==
    /\ pc = "returned"
    /\ IF LogFile # "nil"
       THEN /\ LogFileOut' = Append(LogFileOut, writeLog)
            /\ pc' = "filed"
       ELSE /\ LogFileOut' = LogFileOut
            /\ pc' = "done"
    /\ UNCHANGED <<Truncate, LogFile, pw, ContentLength, rw, body, passed,
                   call, calls, Stdout, ret>>

\* os.Stdout.Write([]byte(s)) with the string the file received, then the
\* return of ServeHTTP
ServeHTTPStdout ==
    /\ pc = "filed"
    /\ Stdout' = Append(Stdout, LogFileOut[Len(LogFileOut)])
    /\ pc' = "done"
    /\ UNCHANGED <<Truncate, LogFile, pw, ContentLength, rw, body, passed,
                   call, calls, LogFileOut, ret>>

\* next.ServeHTTP panics (http.ErrAbortHandler, or any other panic):
\* ServeHTTP has no deferred call, the panic unwinds through it
HandlerPanic ==
    /\ pc = "handler"
    /\ pc' = "panicked"
    /\ ret' = "panic"
    /\ UNCHANGED <<Truncate, LogFile, pw, ContentLength, rw, body, passed,
                   call, calls, LogFileOut, Stdout>>

\* what the real body answers to one Read, what the real writer to one Write:
\* all of data accepted, or an error after any number of its bytes (after
\* none when the writer refuses the write, as net/http does with
\* ErrBodyNotAllowed, ErrContentLength and ErrHijacked; after all of them
\* when the error is found on the way out)
ReadErrs == {"nil", "EOF"}

WriteResults(data) ==
    {<<Len(data), "nil">>} \cup {<<n, "write error">> : n \in 0..Len(data)}

HandlerErrs == {"nil", "handler error"}

Next ==
    \/ \E t \in ParsedTruncate, ok \in BOOLEAN : UnmarshalCaddyfile(t, ok)
    \/ \E opened \in BOOLEAN : Provision(opened)
    \/ ServeHTTPBegin
    \/ \E chunk \in Chunks, err \in ReadErrs : Read(chunk, err)
    \/ Close
    \/ \E c \in StatusCodes : WriteHeader(c)
    \/ \E data \in Chunks : \E r \in WriteResults(data) : Write(data, r[1], r[2])
    \/ \E err \in HandlerErrs : ServeHTTPNextReturns(err)
    \/ ServeHTTPLogFile
    \/ ServeHTTPStdout
    \/ HandlerPanic

Spec == Init /\ [][Next]_vars


(***************************************************************************)
(* The fixed-threshold variant (src/main.go:1-266).  Its ZLog has no       *)
(* Truncate field and its proxyWriter other fields; Provision, Close,      *)
(* WriteHeader, the return and the panic of the handler and the write on   *)
(* os.Stdout are the same code as above.                                   *)
(***************************************************************************)
\* the proxyWriter literal of ServeHTTP: every field not named is zero
proxyWriterFixed == [buf |-> <<>>, code |-> 0, bodyBuf |-> <<>>, respLen |-> 0]

InitFixed ==
    /\ Fresh
    /\ pw = proxyWriterFixed
    /\ call = NoCall

\* UnmarshalCaddyfile (main.go:51-124): no directive is kept in a field the
\* exchange reads; a well-formed block ends with the line of printCfg
UnmarshalCaddyfileFixed(ok) ==
    /\ pc = "config"
    /\ IF ok
       THEN /\ Stdout' = Append(Stdout, printCfg)
            /\ pc' = "configured"
       ELSE /\ Stdout' = Stdout
            /\ pc' = "rejected"
    /\ UNCHANGED <<Truncate, LogFile, pw, ContentLength, rw, body, passed,
                   call, calls, LogFileOut, ret>>

\* the Content-Length a request declares, -1 when it declares none
ContentLengths == {-1, 0, MaxBufferSize, MaxBufferSize + 1}

\* ServeHTTP up to the call of next.ServeHTTP, for a request of declared
\* length cl
ServeHTTPBeginFixed(cl) ==
    /\ pc = "ready"
    /\ ContentLength' = cl
    /\ pw' = proxyWriterFixed
    /\ pc' = "handler"
    /\ UNCHANGED <<Truncate, LogFile, rw, body, passed, call, calls,
                   LogFileOut, Stdout, ret>>

\* proxyWriter.Read(p); the server's body reader never delivers more than
\* the declared Content-Length
ReadFixed(chunk, err) ==
    /\ pc = "handler"
    /\ calls < MaxCalls
    /\ ContentLength >= 0 => Len(body.read) + Len(chunk) <= ContentLength
    /\ body' = [body EXCEPT !.read = @ \o chunk]
    /\ pw' = IF ContentLength > MaxBufferSize THEN pw
             ELSE IF \E i \in 1..Len(chunk) : chunk[i] > 127 THEN pw
             ELSE [pw EXCEPT !.bodyBuf = @ \o chunk]
    /\ call' = [op |-> "Read", arg |-> chunk, under |-> <<Len(chunk), err>>,
                ret |-> <<Len(chunk), err>>]
    /\ calls' = calls + 1
    /\ UNCHANGED <<Truncate, LogFile, pc, ContentLength, rw, passed,
                   LogFileOut, Stdout, ret>>

\* proxyWriter.Write(data)
WriteFixed(data, n, err) ==
    /\ pc = "handler"
    /\ calls < MaxCalls
    /\ rw' = [rw EXCEPT !.written = @ + n, !.status = Commit(200)]
    /\ passed' = passed \o data
    /\ pw' = IF Len(pw.buf) >= MaxBufferSize
             THEN [pw EXCEPT !.respLen = @ + n]
             ELSE [pw EXCEPT !.respLen = @ + n, !.buf = @ \o data]
    /\ call' = [op |-> "Write", arg |-> data, under |-> <<n, err>>,
                ret |-> <<n, err>>]
    /\ calls' = calls + 1
    /\ UNCHANGED <<Truncate, LogFile, pc, ContentLength, body, LogFileOut,
                   Stdout, ret>>

\* the placeholder tokens of writeLog
LargeRequest == "[Large Request]"

LargeResponse == "[Large Response]"

\* proxyWriter.writeLog
writeLogFixed ==
    [code |-> pw.code,
     reqBody |-> IF ContentLength > MaxBufferSize THEN LargeRequest
                 ELSE tryToJsonFixed(pw.bodyBuf),
     respBody |-> IF pw.respLen > MaxBufferSize THEN LargeResponse
                  ELSE tryToJsonFixed(pw.buf)]

\* ServeHTTP after next.ServeHTTP (main.go:225-230)
ServeHTTPLogFileFixed ==
    /\ pc = "returned"
    /\ IF LogFile # "nil"
       THEN /\ LogFileOut' = Append(LogFileOut, writeLogFixed)
            /\ pc' = "filed"
       ELSE /\ LogFileOut' = LogFileOut
            /\ pc' = "done"
    /\ UNCHANGED <<Truncate, LogFile, pw, ContentLength, rw, body, passed,
                   call, calls, Stdout, ret>>

NextFixed ==
    \/ \E ok \in BOOLEAN : UnmarshalCaddyfileFixed(ok)
    \/ \E opened \in BOOLEAN : Provision(opened)
    \/ \E cl \in ContentLengths : ServeHTTPBeginFixed(cl)
    \/ \E chunk \in Chunks, err \in ReadErrs : ReadFixed(chunk, err)
    \/ Close
    \/ \E c \in StatusCodes : WriteHeader(c)
    \/ \E data \in Chunks : \E r \in WriteResults(data) : WriteFixed(data, r[1], r[2])
    \/ \E err \in HandlerErrs : ServeHTTPNextReturns(err)
    \/ ServeHTTPLogFileFixed
    \/ ServeHTTPStdout
    \/ HandlerPanic

SpecFixed == InitFixed /\ [][NextFixed]_vars

(***************************************************************************)
(* The third revision (src/main.go:268-341).  Its ZLog has no field and no *)
(* Provision, its proxyWriter wraps the response writer only (the request  *)
(* body is not replaced, WriteHeader is the promoted method of the real    *)
(* writer), and ServeHTTP copies the captured response bytes to os.Stdout. *)
(***************************************************************************)
proxyWriterAscii == [buf |-> <<>>]

InitAscii ==
    /\ Fresh
    /\ pw = proxyWriterAscii
    /\ call = NoCall

\* UnmarshalCaddyfile: return nil
UnmarshalCaddyfileAscii ==
    /\ pc = "config"
    /\ pc' = "ready"
    /\ UNCHANGED <<Truncate, LogFile, pw, ContentLength, rw, body, passed,
                   call, calls, LogFileOut, Stdout, ret>>

\* ServeHTTP up to the call of next.ServeHTTP
ServeHTTPBeginAscii ==
    /\ pc = "ready"
    /\ pw' = proxyWriterAscii
    /\ pc' = "handler"
    /\ UNCHANGED <<Truncate, LogFile, ContentLength, rw, body, passed, call,
                   calls, LogFileOut, Stdout, ret>>

\* WriteHeader of the embedded http.ResponseWriter: the proxyWriter has no
\* method of its own
WriteHeaderAscii(statusCode) ==
    /\ pc = "handler"
    /\ calls < MaxCalls
    /\ rw' = [rw EXCEPT !.status = Commit(statusCode), !.headers = @ + 1]
    /\ call' = [op |-> "WriteHeader", arg |-> <<statusCode>>, under |-> <<>>,
                ret |-> <<>>]
    /\ calls' = calls + 1
    /\ UNCHANGED <<Truncate, LogFile, pc, pw, ContentLength, body, passed,
                   LogFileOut, Stdout, ret>>

\* proxyWriter.Write(data)
WriteAscii(data, n, err) ==
    /\ pc = "handler"
    /\ calls < MaxCalls
    /\ rw' = [rw EXCEPT !.written = @ + n, !.status = Commit(200)]
    /\ passed' = passed \o data
    /\ pw' = IF Len(pw.buf) >= MaxBufferSizeAscii THEN pw
             ELSE IF \E i \in 1..Len(data) : data[i] > 127 THEN pw
             ELSE [pw EXCEPT !.buf = @ \o data]
    /\ call' = [op |-> "Write", arg |-> data, under |-> <<n, err>>,
                ret |-> <<n, err>>]
    /\ calls' = calls + 1
    /\ UNCHANGED <<Truncate, LogFile, pc, ContentLength, body, LogFileOut,
                   Stdout, ret>>

\* ServeHTTP after next.ServeHTTP: io.Copy(os.Stdout, &writer.buf) when the
\* buffer is not empty, which hands all of it to os.Stdout in one write
\* (bytes.Buffer.WriteTo) and leaves the buffer empty; then the return
ServeHTTPCopyAscii ==
    /\ pc = "returned"
    /\ IF Len(pw.buf) > 0
       THEN /\ Stdout' = Append(Stdout, pw.buf)
            /\ pw' = [pw EXCEPT !.buf = <<>>]
       ELSE UNCHANGED <<Stdout, pw>>
    /\ pc' = "done"
    /\ UNCHANGED <<Truncate, LogFile, ContentLength, rw, body, passed, call,
                   calls, LogFileOut, ret>>

NextAscii ==
    \/ UnmarshalCaddyfileAscii
    \/ ServeHTTPBeginAscii
    \/ \E c \in StatusCodes : WriteHeaderAscii(c)
    \/ \E data \in Chunks : \E r \in WriteResults(data) : WriteAscii(data, r[1], r[2])
    \/ \E err \in HandlerErrs : ServeHTTPNextReturns(err)
    \/ ServeHTTPCopyAscii
    \/ HandlerPanic

SpecAscii == InitAscii /\ [][NextAscii]_vars

(***************************************************************************)
(* Rendering alone: tryToJson of either variant applied to a payload.      *)
(***************************************************************************)
\* the bytes payloads are made of: whitespace, a digit, a letter, the
\* punctuation of a JSON string and array, and a byte above 127
JsonBytes == {Ch.LF, Ch.SP, Ch.ONE, Ch.LOWERA, Ch.QUOTE, Ch.LBRACKET,
              Ch.RBRACKET, Ch.HIGH}

\* "k":1
Member(k) == <<Ch.QUOTE, k, Ch.QUOTE, Ch.COLON, Ch.ONE>>

\* {"b":1,"a":1}
DocUnsorted ==
    <<Ch.LBRACE>> \o Member(Ch.LOWERB) \o <<Ch.COMMA>> \o Member(Ch.LOWERA)
      \o <<Ch.RBRACE>>

\* {"a":1,  "b":1}
DocSpaced ==
    <<Ch.LBRACE>> \o Member(Ch.LOWERA) \o <<Ch.COMMA, Ch.SP, Ch.SP>>
      \o Member(Ch.LOWERB) \o <<Ch.RBRACE>>

\* {"a":1,"a":[]}
DocRepeated ==
    <<Ch.LBRACE>> \o Member(Ch.LOWERA) \o <<Ch.COMMA>>
      \o <<Ch.QUOTE, Ch.LOWERA, Ch.QUOTE, Ch.COLON, Ch.LBRACKET, Ch.RBRACKET>>
      \o <<Ch.RBRACE>>

\* {"b":{"b":1,"a":1},"a":[ 1 ]}
DocNested ==
    <<Ch.LBRACE, Ch.QUOTE, Ch.LOWERB, Ch.QUOTE, Ch.COLON>> \o DocUnsorted
      \o <<Ch.COMMA, Ch.QUOTE, Ch.LOWERA, Ch.QUOTE, Ch.COLON, Ch.LBRACKET,
           Ch.SP, Ch.ONE, Ch.SP, Ch.RBRACKET, Ch.RBRACE>>

\* {"a":"\xC8"}
DocHigh ==
    <<Ch.LBRACE, Ch.QUOTE, Ch.LOWERA, Ch.QUOTE, Ch.COLON, Ch.QUOTE, Ch.HIGH,
      Ch.QUOTE, Ch.RBRACE>>

\* "<"
DocHtml == <<Ch.QUOTE, Ch.LT, Ch.QUOTE>>

\* documents with objects, which the short payloads cannot spell
Documents == {DocUnsorted, DocSpaced, DocRepeated, DocNested, DocHigh, DocHtml}

Payloads == SeqsUpTo(JsonBytes, MaxPayload) \cup Documents

\* a payload sits in a capture buffer of an exchange whose handler has run;
\* the buffer is full (the payload is as long as the truncate limit) or has
\* room left
InitRender ==
    /\ Fresh
    /\ \E b \in Payloads :
           /\ call = [op |-> "captured", arg |-> b, under |-> <<>>, ret |-> <<>>]
           /\ \E t \in {Len(b), Len(b) + 1} : pw = proxyWriter(t)

\* p.tryToJson(buf), configurable-truncate variant
CallTryToJson ==
    /\ call.op = "captured"
    /\ call' = [call EXCEPT !.op = "tryToJson", !.ret = tryToJson(call.arg)]
    /\ UNCHANGED <<Truncate, LogFile, pc, pw, ContentLength, rw, body, passed,
                   calls, LogFileOut, Stdout, ret>>

\* p.tryToJson(buf), fixed-threshold variant
CallTryToJsonFixed ==
    /\ call.op = "captured"
    /\ call' = [call EXCEPT !.op = "tryToJsonFixed",
                            !.ret = tryToJsonFixed(call.arg)]
    /\ UNCHANGED <<Truncate, LogFile, pc, pw, ContentLength, rw, body, passed,
                   calls, LogFileOut, Stdout, ret>>

NextRender ==
    \/ CallTryToJson
    \/ CallTryToJsonFixed

SpecRender == InitRender /\ [][NextRender]_vars


(***************************************************************************)
(* The claims.                                                             *)
(***************************************************************************)

\* C1: every proxyWriter.Write(data) forwards data to the real writer and
\* returns exactly the (byte count, error) pair the real writer answered.
C1_WriteReturnsUnderlying ==
    call.op = "Write" =>
        /\ SubSeq(passed, Len(passed) - Len(call.arg) + 1, Len(passed)) = call.arg
        /\ call.ret = call.under

\* C2: every proxyWriter.Read(p) returns exactly the byte count and the
\* end-of-stream or error value the real body answered, with the bytes the
\* real body placed in p.
C2_ReadReturnsUnderlying ==
    call.op = "Read" =>
        /\ SubSeq(body.read, Len(body.read) - Len(call.arg) + 1, Len(body.read))
               = call.arg
        /\ call.ret = call.under

\* C3: when the handler never called WriteHeader, the status in the log
\* line is 200.
C3_DefaultStatus200 ==
    \A i \in 1..Len(LogFileOut) : rw.headers = 0 => LogFileOut[i].code = 200

\* an entry of a sink that is a log line (not the line of printCfg)
IsLine(e) == "code" \in DOMAIN e

\* the log lines a sink has received
Lines(sink) == SelectSeq(sink, IsLine)

\* C4: the log line of an exchange is emitted exactly once, and only after
\* the downstream handler has returned: no sink receives a log line before
\* or while the handler runs, and when ServeHTTP is done the line is there
\* once.
C4_LoggedOnceAfterHandler ==
    /\ pc \in {"config", "configured", "ready", "handler"} =>
           Lines(Stdout) = <<>> /\ LogFileOut = <<>>
    /\ pc = "done" => Len(Lines(Stdout)) = 1 /\ Len(LogFileOut) = 1

\* C5: when the downstream handler fails (it returns an error, or it aborts
\* with a panic), ServeHTTP still emits the log line built from what was
\* captured, and the failure reaches the host unchanged.
C5_FailureStillLogged ==
    /\ pc = "done" /\ ret = "handler error" => Lines(Stdout) = <<writeLog>>
    /\ pc = "panicked" /\ ret = "panic" => Lines(Stdout) = <<writeLog>>

\* C6: when the file sink failed to open (z.LogFile is nil), the log line
\* of an exchange is still written to the console.
C6_ConsoleWithoutFile ==
    pc = "done" /\ LogFile = "nil" => Lines(Stdout) = <<writeLog>>

\* C7: neither capture buffer ever holds more bytes than the truncation
\* limit; and a Read or Write that finds its buffer at the limit retains
\* nothing more, while the bytes still pass to or from the real body and
\* writer, the counter still advances by the byte count and the call
\* returns what the real call answered.
C7_RetainedBounded ==
    /\ [](/\ Len(pw.reqBuf) <= Truncate
          /\ Len(pw.respBuf) <= Truncate
          /\ pw.truncate >= 0 =>
                 Len(pw.reqBuf) <= pw.truncate /\ Len(pw.respBuf) <= pw.truncate)
    /\ [][/\ (/\ pc = "handler" /\ calls' = calls + 1 /\ call'.op = "Write"
              /\ Len(pw.respBuf) = pw.truncate)
             => /\ pw'.respBuf = pw.respBuf
                /\ passed' = passed \o call'.arg
                /\ rw'.written = rw.written + call'.under[1]
                /\ pw'.respSize = pw.respSize + call'.under[1]
                /\ call'.ret = call'.under
          /\ (/\ pc = "handler" /\ calls' = calls + 1 /\ call'.op = "Read"
              /\ Len(pw.reqBuf) = pw.truncate)
             => /\ pw'.reqBuf = pw.reqBuf
                /\ body'.read = body.read \o call'.arg
                /\ pw'.reqSize = pw.reqSize + Len(call'.arg)
                /\ call'.ret = call'.under]_vars

\* a second call of two bytes has found a response buffer that the first
\* had filled to a limit of two bytes, and the counter has gone on past the
\* limit
C7_Witness ==
    /\ calls = 2
    /\ call.op = "Write"
    /\ pw.truncate = 2
    /\ Len(pw.respBuf) = 2
    /\ pw.respSize > 2
    /\ Len(passed) = 2 * MaxChunk

\* C8 as claimed: respSize is the sum of the lengths of every data passed
\* to Write, whatever the real writer answered.
C8_CountsFullLength == pw.respSize = Len(passed)

\* C8 as amended: respSize is the sum of the byte counts the real writer
\* answered to the Write calls.
C8_CountsAccepted == pw.respSize = rw.written

\* two Write calls, of which one was cut short by the real writer
C8_Witness ==
    /\ calls = 2
    /\ call.op = "Write"
    /\ 0 < rw.written
    /\ rw.written < Len(passed)
    /\ Len(pw.respBuf) > pw.respSize

\* C9 (fixed-threshold variant): when the request body that was read is
\* longer than MaxBufferSize the line renders it as [Large Request], and
\* when the response body that was written is longer than MaxBufferSize the
\* line renders it as [Large Response], whatever Content-Length the request
\* declared.
C9_LargeBodyPlaceholder ==
    \A i \in 1..Len(LogFileOut) :
        /\ Len(body.read) > MaxBufferSize => LogFileOut[i].reqBody = LargeRequest
        /\ rw.written > MaxBufferSize => LogFileOut[i].respBody = LargeResponse

\* the text with every newline replaced by backslash, n
RECURSIVE Escaped(_)
Escaped(s) ==
    IF s = <<>> THEN <<>>
    ELSE (IF Head(s) = Ch.LF THEN <<Ch.BACKSLASH, Ch.LOWERN>> ELSE <<Head(s)>>)
         \o Escaped(Tail(s))

Cut(s, n) == IF Len(s) > n THEN SubSeq(s, 1, n) ELSE s

IsJson(b) == Unmarshal(b).ok

HasHighByte(b) == \E i \in 1..Len(b) : b[i] > 127

\* C10: a payload that is not valid JSON is rendered by tryToJson as its
\* text with every newline escaped, cut to the maximum rendered length
\* (MaxTextSize in the fixed-threshold variant, the truncate limit in the
\* configurable one), whatever its bytes.  The configurable-truncate
\* tryToJson applies no cut after escaping, and returns the empty text for
\* a payload with a byte above 127.
C10_NonJsonEscapedAndCut ==
    /\ call.op = "tryToJsonFixed" /\ ~IsJson(call.arg) =>
           call.ret = Cut(Escaped(call.arg), MaxTextSize)
    /\ call.op = "tryToJson" /\ ~IsJson(call.arg) =>
           call.ret = Cut(Escaped(call.arg), pw.truncate)


-----------------------------------------------------------------------------
\* Concurrent exchanges.  The host calls ServeHTTP from one goroutine per
\* request; every call has its own proxyWriter (a local variable of
\* ServeHTTP) and all calls share z.LogFile and os.Stdout.  In SpecConc the
\* variables pc, pw, rw, body, passed, calls and ret hold one value per
\* exchange, and a sink entry is one write call: the sequence of the
\* fragments it carried, each tagged with the exchange it came from.  The
\* module was configured by a Caddyfile with truncate 1B and provisioned
\* with its file open: os.Stdout holds the line of printCfg.

NumExchanges == 2
MaxConcCalls == 1

Exchanges == 1..NumExchanges

\* the four writes writeLog makes into w for the exchange e with proxyWriter p
LineOf(p, e) ==
    <<[ex |-> e, part |-> "head", code |-> p.code],
      [ex |-> e, part |-> "request", size |-> p.reqSize,
       text |-> tryToJson(p.reqBuf)],
      [ex |-> e, part |-> "response", size |-> p.respSize,
       text |-> tryToJson(p.respBuf)],
      [ex |-> e, part |-> "newline"]>>

InitConc ==
    /\ Truncate = 1
    /\ LogFile = "open"
    /\ pc = [e \in Exchanges |-> "ready"]
    /\ pw = [e \in Exchanges |-> proxyWriter(0)]
    /\ ContentLength = -1
    /\ rw = [e \in Exchanges |-> [written |-> 0, status |-> 0, headers |-> 0]]
    /\ body = [e \in Exchanges |-> [read |-> <<>>, closed |-> FALSE]]
    /\ passed = [e \in Exchanges |-> <<>>]
    /\ call = NoCall
    /\ calls = [e \in Exchanges |-> 0]
    /\ LogFileOut = <<>>
    /\ Stdout = <<<<printCfg>>>>
    /\ ret = [e \in Exchanges |-> "none"]

\* ServeHTTP of exchange e up to the call of next.ServeHTTP
ConcBegin(e) ==
    /\ pc[e] = "ready"
    /\ pw' = [pw EXCEPT ![e] = proxyWriter(ToInt(Truncate))]
    /\ pc' = [pc EXCEPT ![e] = "handler"]
    /\ UNCHANGED <<Truncate, LogFile, ContentLength, rw, body, passed, call,
                   calls, LogFileOut, Stdout, ret>>

\* proxyWriter.Read of exchange e; the real body delivers chunk
ConcRead(e, chunk) ==
    /\ pc[e] = "handler"
    /\ calls[e] < MaxConcCalls
    /\ body' = [body EXCEPT ![e].read = @ \o chunk]
    /\ pw' = [pw EXCEPT ![e] =
                [@ EXCEPT !.reqSize = @ + Len(chunk),
                          !.reqBuf = @ \o Prefix(chunk,
                              min(pw[e].truncate - Len(pw[e].reqBuf),
                                  Len(chunk)))]]
    /\ calls' = [calls EXCEPT ![e] = @ + 1]
    /\ UNCHANGED <<Truncate, LogFile, pc, ContentLength, rw, passed, call,
                   LogFileOut, Stdout, ret>>

\* proxyWriter.Write of exchange e; the real writer accepts all of data
ConcWrite(e, data) ==
    /\ pc[e] = "handler"
    /\ calls[e] < MaxConcCalls
    /\ rw' = [rw EXCEPT ![e] =
                [@ EXCEPT !.written = @ + Len(data),
                          !.status = IF @ = 0 THEN 200 ELSE @]]
    /\ passed' = [passed EXCEPT ![e] = @ \o data]
    /\ pw' = [pw EXCEPT ![e] =
                [@ EXCEPT !.respSize = @ + Len(data),
                          !.respBuf = @ \o Prefix(data,
                              min(Len(data),
                                  pw[e].truncate - Len(pw[e].respBuf)))]]
    /\ calls' = [calls EXCEPT ![e] = @ + 1]
    /\ UNCHANGED <<Truncate, LogFile, pc, ContentLength, body, call,
                   LogFileOut, Stdout, ret>>

\* next.ServeHTTP of exchange e returns; writeLog formats the line into the
\* local buf of ServeHTTP, which no other exchange can see
ConcWriteLog(e) ==
    /\ pc[e] = "handler"
    /\ pc' = [pc EXCEPT ![e] = "formatted"]
    /\ UNCHANGED <<Truncate, LogFile, pw, ContentLength, rw, body, passed,
                   call, calls, LogFileOut, Stdout, ret>>

\* ConcFileWrite as it would be if writeLog were given the shared sink as w:
\* one write call per fragment
ConcFileWriteInParts(e) ==
    /\ pc[e] = "formatted"
    /\ LET done == Cardinality({i \in 1..Len(LogFileOut) :
                                   LogFileOut[i][1].ex = e})
       IN  /\ LogFileOut' = Append(LogFileOut, <<LineOf(pw[e], e)[done + 1]>>)
           /\ pc' = [pc EXCEPT ![e] = IF done + 1 = Len(LineOf(pw[e], e))
                                      THEN "filed" ELSE @]
    /\ UNCHANGED <<Truncate, LogFile, pw, ContentLength, rw, body, passed,
                   call, calls, Stdout, ret>>

\* z.LogFile.Write([]byte(s)) of exchange e: one write call with the line
ConcFileWrite(e) ==
    /\ pc[e] = "formatted"
    /\ LogFileOut' = Append(LogFileOut, LineOf(pw[e], e))
    /\ pc' = [pc EXCEPT ![e] = "filed"]
    /\ UNCHANGED <<Truncate, LogFile, pw, ContentLength, rw, body, passed,
                   call, calls, Stdout, ret>>

\* os.Stdout.Write([]byte(s)) of exchange e, and the return of ServeHTTP
ConcStdoutWrite(e) ==
    /\ pc[e] = "filed"
    /\ Stdout' = Append(Stdout, LineOf(pw[e], e))
    /\ pc' = [pc EXCEPT ![e] = "done"]
    /\ ret' = [ret EXCEPT ![e] = "nil"]
    /\ UNCHANGED <<Truncate, LogFile, pw, ContentLength, rw, body, passed,
                   call, calls, LogFileOut>>

ConcChunks == {<<Ch.ONE>>, <<Ch.HIGH, Ch.ONE>>}

NextConc ==
    \/ \E e \in Exchanges : ConcBegin(e)
    \/ \E e \in Exchanges, chunk \in ConcChunks : ConcRead(e, chunk)
    \/ \E e \in Exchanges, data \in ConcChunks : ConcWrite(e, data)
    \/ \E e \in Exchanges : ConcWriteLog(e)
    \/ \E e \in Exchanges : ConcFileWrite(e)
    \/ \E e \in Exchanges : ConcStdoutWrite(e)

SpecConc == InitConc /\ [][NextConc]_vars

-----------------------------------------------------------------------------

\* position i of s lies outside every string literal (strings of the model
\* hold no escapes)
Outside(s, i) == Cardinality({j \in 1..(i - 1) : s[j] = Ch.QUOTE}) % 2 = 0

\* s without the whitespace that stands outside string literals
RECURSIVE StripFrom(_, _)
StripFrom(s, i) ==
    IF i > Len(s) THEN <<>>
    ELSE (IF IsWs(s[i]) /\ Outside(s, i) THEN <<>> ELSE <<s[i]>>)
         \o StripFrom(s, i + 1)

StripWs(s) == StripFrom(s, 1)

\* the closing quote of the string literal opened at p
CloseOf(s, p) == CHOOSE q \in (p + 1)..Len(s) :
                    s[q] = Ch.QUOTE /\ \A m \in (p + 1)..(q - 1) : s[m] # Ch.QUOTE

\* where the keys of a compact document start: an opening quote whose
\* literal is followed by a colon
KeyStarts(s) ==
    {p \in 1..Len(s) :
        /\ s[p] = Ch.QUOTE /\ Outside(s, p)
        /\ \E q \in (p + 1)..Len(s) : s[q] = Ch.QUOTE
        /\ At(s, CloseOf(s, p) + 1) = Ch.COLON}

KeyAt(s, p) == SubSeq(s, p + 1, CloseOf(s, p) - 1)

CountOutside(s, c, a, b) ==
    Cardinality({i \in a..b : s[i] = c /\ Outside(s, i)})

\* the opening brace of the object that the key at p belongs to
Owner(s, p) ==
    LET opens == {q \in 1..(p - 1) :
                    /\ s[q] = Ch.LBRACE /\ Outside(s, q)
                    /\ CountOutside(s, Ch.LBRACE, q + 1, p - 1)
                         = CountOutside(s, Ch.RBRACE, q + 1, p - 1)}
    IN  CHOOSE q \in opens : \A o \in opens : o <= q

\* within every object the keys stand in strictly ascending byte order
KeysAscending(s) ==
    \A p1, p2 \in KeyStarts(s) :
        p1 < p2 /\ Owner(s, p1) = Owner(s, p2) => Less(KeyAt(s, p1), KeyAt(s, p2))

\* no byte that json.Marshal writes as \u00XX
NoHtml(s) == \A i \in 1..Len(s) : s[i] \notin {Ch.LT, Ch.GT, Ch.AMP}

\* C11 as claimed: a valid JSON payload shorter than the truncate limit is
\* rendered as the document with its insignificant whitespace removed and
\* the keys of every object in the order of the original document (stated
\* for ASCII documents whose strings json.Marshal writes back byte for byte).
C11_CompactKeepsKeyOrder ==
    (call.op = "tryToJson" /\ IsJson(call.arg) /\ Len(call.arg) < pw.truncate
       /\ NoHtml(call.arg) /\ ~HasHighByte(call.arg))
        => call.ret = StripWs(call.arg)

\* C11 as amended: a valid JSON payload of ASCII bytes shorter than the
\* truncate limit is rendered as a compact JSON document (no whitespace
\* outside strings) whose objects have their keys in strictly ascending
\* byte order; when no string holds <, > or & it is a JSON document that
\* rendered again stays the same, and it is the original with the
\* whitespace removed when the keys of the original already ascend.  A
\* valid JSON payload that holds a byte above 127 is rendered as the empty
\* text.
C11_CompactSortedKeys ==
    (call.op = "tryToJson" /\ IsJson(call.arg) /\ Len(call.arg) < pw.truncate)
        => IF HasHighByte(call.arg) THEN call.ret = <<>>
           ELSE /\ StripWs(call.ret) = call.ret
                /\ KeysAscending(call.ret)
                /\ NoHtml(call.arg) =>
                       /\ IsJson(call.ret)
                       /\ tryToJson(call.ret) = call.ret
                       /\ KeysAscending(StripWs(call.arg))
                              => call.ret = StripWs(call.arg)

\* a document with whitespace and with keys out of order, nested, has been
\* rendered: {"a":[1],"b":{"a":1,"b":1}}
C11_Witness ==
    /\ call.op = "tryToJson"
    /\ call.arg = DocNested
    /\ Len(call.arg) < pw.truncate
    /\ call.ret # StripWs(call.arg)
    /\ Len(call.ret) = Len(StripWs(call.arg))

\* C12: the rendered body text is at most the truncate limit long, for a
\* capture buffer of at most that many bytes, on the JSON path and on the
\* escaped raw-text path.
C12_RenderedWithinLimit ==
    call.op = "tryToJson" => Len(call.ret) <= pw.truncate


\* C13: formatting is idempotent: the step that formats the log line leaves
\* the capture buffers, the byte counters and the status code as they were,
\* so that formatting once more in the state after it yields the very line
\* that was written to each sink.
C13_FormattingIdempotent ==
    [][/\ (pc = "returned" /\ pc' # pc)
          => /\ pw' = pw
             /\ LogFile # "nil" => LogFileOut'[Len(LogFileOut')] = writeLog'
       /\ (pc = "filed" /\ pc' # pc)
          => /\ pw' = pw
             /\ Stdout'[Len(Stdout')] = writeLog']_vars

\* a line has been formatted from an exchange with both bodies captured, and
\* formatting the exchange again gives that line
C13_Witness ==
    /\ pc = "done"
    /\ Lines(Stdout) = <<writeLog>>
    /\ LogFileOut = <<writeLog>>
    /\ Len(pw.reqBuf) > 0
    /\ pw.truncate = 2
    /\ Len(pw.respBuf) = pw.truncate


\* the fragments a sink holds, in the order of its bytes
Flat(sink) == Concat(sink)

\* in a sink no fragment of another exchange stands between two fragments
\* of one exchange
Unsplit(sink) ==
    LET f == Flat(sink)
    IN  \A i, k \in 1..Len(f) :
            (i < k /\ f[i].ex = f[k].ex)
                => \A j \in i..k : f[j].ex = f[i].ex

\* every write call the sink received carried one complete line, ending in
\* the newline, and no exchange made two of them
WholeLines(sink) ==
    /\ \A i \in 1..Len(sink) :
           sink[i] # <<printCfg>> =>
               /\ sink[i][1].ex \in Exchanges
               /\ sink[i] = LineOf(pw[sink[i][1].ex], sink[i][1].ex)
               /\ sink[i][Len(sink[i])].part = "newline"
    /\ \A i, j \in 1..Len(sink) : sink[i][1].ex = sink[j][1].ex => i = j

\* C14: under every interleaving of concurrent exchanges each exchange
\* delivers its line to each shared sink as one complete newline-terminated
\* line in one write call, no sink holds a line split by bytes of another
\* line, and a step of one exchange changes the capture state of no other
\* exchange.
C14_WholeLinesNoSharedState ==
    /\ [](/\ WholeLines(LogFileOut) /\ WholeLines(Stdout)
          /\ Unsplit(LogFileOut) /\ Unsplit(Stdout)
          /\ \A e \in Exchanges :
                 /\ pc[e] \in {"filed", "done"}
                        => \E i \in 1..Len(LogFileOut) : LogFileOut[i][1].ex = e
                 /\ pc[e] = "done"
                        => \E i \in 1..Len(Stdout) : Stdout[i][1].ex = e)
    /\ [][\A e \in Exchanges :
              (pc'[e] # pc[e] \/ calls'[e] # calls[e])
                  => \A o \in Exchanges \ {e} :
                         /\ pw'[o] = pw[o]
                         /\ passed'[o] = passed[o]
                         /\ body'[o] = body[o]]_vars

\* all exchanges have logged, their lines differ, and the sinks hold them in
\* different orders: the writes of the exchanges were interleaved
C14_Witness ==
    /\ \A e \in Exchanges : pc[e] = "done"
    /\ Len(Stdout) = NumExchanges + 1
    /\ Len(LogFileOut) = NumExchanges
    /\ Stdout[1] = <<printCfg>>
    /\ LogFileOut[1][1].ex # Stdout[2][1].ex
    /\ pw[1].respBuf # pw[2].respBuf
    /\ Len(pw[1].respBuf) > 0
    /\ Len(pw[2].reqBuf) > 0


\* where the first byte above 127 of s stands
FirstHigh(s) ==
    CHOOSE i \in 1..Len(s) : s[i] > 127 /\ \A j \in 1..(i - 1) : s[j] <= 127

\* C15: once a Write of the third revision has carried a byte above 127, no
\* byte of that call or of a later call is added to the capture buffer: the
\* buffer holds none of the bytes from the first byte above 127 on, so it
\* is shorter than the position of that byte.
C15_RetentionStopsAtHighByte ==
    (pc = "handler" /\ HasHighByte(passed))
        => Len(pw.buf) < FirstHigh(passed)

\* the same for Read of the fixed-threshold revision (under SpecFixed)
C15_ReadRetentionStops ==
    (pc = "handler" /\ HasHighByte(body.read))
        => Len(pw.bodyBuf) < FirstHigh(body.read)


\* C16: the request buffer is the first min(truncate, reqSize) bytes of what
\* the real body delivered, and the response buffer the first
\* min(truncate, bytes passed to Write) bytes the handler passed to Write,
\* in their order (with a negative truncate: no bytes).
C16_BuffersArePrefixes ==
    /\ pw.reqBuf = Prefix(body.read, min(pw.truncate, pw.reqSize))
    /\ pw.reqSize = Len(body.read)
    /\ pw.respBuf = Prefix(passed, min(pw.truncate, Len(passed)))

\* a second Read found room for one of its two bytes: the buffer holds the
\* first two of the three bytes delivered
C16_Witness ==
    /\ call.op = "Read"
    /\ calls = 2
    /\ pw.truncate = 2
    /\ pw.reqSize = 3
    /\ body.read = <<Ch.HIGH, Ch.ONE, Ch.HIGH>>
    /\ pw.reqBuf = <<Ch.HIGH, Ch.ONE>>

\* C17: in the fixed-threshold variant neither capture buffer ever holds
\* more than MaxBufferSize bytes.
C17_BuffersWithinMax ==
    pc \in {"handler", "done"}
        => Len(pw.bodyBuf) <= MaxBufferSize /\ Len(pw.buf) <= MaxBufferSize

\* C18: the slice bound of the capture step lies between 0 and the number
\* of bytes available, for every truncate the configuration can yield, so no
\* Read or Write is aborted by the capture step.
C18_SliceBoundInRange ==
    /\ call.op \in {"Read", "Write"} => call.ret # <<"panic">>
    /\ (pc = "handler" /\ calls > 0) =>
           \A n \in 0..MaxChunk :
               /\ min(pw.truncate - Len(pw.reqBuf), n) \in 0..n
               /\ min(n, pw.truncate - Len(pw.respBuf)) \in 0..n

\* C19: once the handler has called WriteHeader, the status code recorded
\* for the log line is the status the real writer committed to the client.
C19_RecordedIsCommitted ==
    (pc \in {"handler", "done"} /\ rw.headers > 0) => pw.code = rw.status


\* C20: the four calls touch disjoint capture state.  Read changes only the
\* request buffer and counter (and what the real body has delivered), Write
\* only the response buffer and counter (and the real writer), WriteHeader
\* only the status code (and the real writer's status), Close changes no
\* field of the proxyWriter, closes the request body and leaves the real
\* writer alone.
C20_DisjointCaptureState ==
    [][calls' = calls + 1 =>
         /\ call'.op = "Read" =>
                /\ pw'.respBuf = pw.respBuf /\ pw'.respSize = pw.respSize
                /\ pw'.code = pw.code /\ pw'.truncate = pw.truncate
                /\ rw' = rw /\ passed' = passed
                /\ body'.closed = body.closed
         /\ call'.op = "Write" =>
                /\ pw'.reqBuf = pw.reqBuf /\ pw'.reqSize = pw.reqSize
                /\ pw'.code = pw.code /\ pw'.truncate = pw.truncate
                /\ body' = body
         /\ call'.op = "WriteHeader" =>
                /\ pw' = [pw EXCEPT !.code = call'.arg[1]]
                /\ rw'.written = rw.written
                /\ body' = body /\ passed' = passed
         /\ call'.op = "Close" =>
                /\ pw' = pw /\ rw' = rw /\ passed' = passed
                /\ body'.closed /\ body'.read = body.read]_vars

\* a Read has followed a Write on one exchange; each buffer holds what its
\* own call retained
C20_Witness ==
    /\ calls = 2
    /\ call.op = "Read"
    /\ pw.reqBuf = <<Ch.HIGH>>
    /\ pw.respBuf = <<Ch.ONE, Ch.ONE>>
    /\ pw.code = 0
    /\ ~body.closed

====
